---- MODULE Spec2Model ----
(***************************************************************************)
(* Mindora-backend: the personality quiz core.                             *)
(*                                                                         *)
(*   - QuizService.validateAnswers / calculateScores /                     *)
(*     resolveTopPersonality / calculateMaxContributions: the pure         *)
(*     validation, weighted scoring and tie-break cascade                  *)
(*     (src/src/quiz/quiz.module.ts).                                      *)
(*   - QuizService.submitQuiz with UsersService.hasCompletedQuiz and       *)
(*     markQuizCompleted: the single-attempt gate and the result store     *)
(*     (src/src/quiz/quiz.module.ts, src/src/users/users.module.ts).       *)
(*   - QuizService.getResult / getMyResult: the retrieval of a stored      *)
(*     Result by its token or by its owner.                                *)
(*                                                                         *)
(* Four specifications share the module:                                   *)
(*   SpecScoring  one submission body taken through DTO validation,        *)
(*                validateAnswers, calculateScores, resolveTopPersonality, *)
(*                for every answer list up to MaxAnswers entries;          *)
(*   Spec         concurrent submitQuiz calls against the users and        *)
(*                results collections, one action per await boundary.      *)
(*   SpecRead     the same calls with a valid body, interleaved with       *)
(*                getResult and getMyResult requests.                      *)
(*   SpecGate     the calls of Spec from collections in which one user     *)
(*                has completed the quiz before.                           *)
(***************************************************************************)
EXTENDS Integers, Sequences, FiniteSets

(***************************************************************************)
(* Bounds                                                                  *)
(***************************************************************************)
\* longest answer list explored by SpecScoring
MaxAnswers == 3
\* number of submitQuiz calls explored by Spec
MaxCalls == 2

(***************************************************************************)
(* Strings.  Personality ids are JavaScript strings; Array.prototype.sort  *)
(* without a comparator orders them by UTF-16 code units.                  *)
(***************************************************************************)
\* the value JavaScript yields for the first element of an empty array
Undefined == "<undefined>"

\* UTF-16 code units of the personality ids used in the catalog
CodeUnits(s) ==
    CASE s = "alpha"     -> <<97, 108, 112, 104, 97>>
      [] s = "architect" -> <<97, 114, 99, 104, 105, 116, 101, 99, 116>>
      [] s = "beta"      -> <<98, 101, 116, 97>>
      [] s = "explorer"  -> <<101, 120, 112, 108, 111, 114, 101, 114>>
      [] s = "leader"    -> <<108, 101, 97, 100, 101, 114>>
      [] s = "Zen"       -> <<90, 101, 110>>

RECURSIVE UnitsLess(_, _, _)
\* a precedes b at or after position i, comparing code unit by code unit;
\* a proper prefix precedes the longer string
UnitsLess(a, b, i) ==
    IF i > Len(b) THEN FALSE
    ELSE IF i > Len(a) THEN TRUE
    ELSE IF a[i] # b[i] THEN a[i] < b[i]
    ELSE UnitsLess(a, b, i + 1)

\* the default comparison of Array.prototype.sort: x sorts before y
StringLess(x, y) == UnitsLess(CodeUnits(x), CodeUnits(y), 1)

RECURSIVE InsertSorted(_, _, _)
InsertSorted(sorted, x, i) ==
    IF i > Len(sorted) THEN Append(sorted, x)
    ELSE IF StringLess(x, sorted[i])
         THEN SubSeq(sorted, 1, i - 1) \o <<x>> \o SubSeq(sorted, i, Len(sorted))
         ELSE InsertSorted(sorted, x, i + 1)

\* Sort with a seeded fault: the array is returned as it was filled
SortOmitted(arr) == arr

RECURSIVE SortFrom(_, _, _)
SortFrom(sorted, arr, i) ==
    IF i > Len(arr) THEN sorted
    ELSE SortFrom(InsertSorted(sorted, arr[i], 1), arr, i + 1)

\* winnersAfterTieBreak.sort(): ascending by code units
Sort(arr) == SortFrom(<<>>, arr, 1)

(***************************************************************************)
(* JavaScript objects used as maps (ScoringMap, ScoreBreakdown): a         *)
(* sequence of entries in key insertion order (the ids are names, never    *)
(* integer-like keys, which JavaScript would enumerate first).             *)
(***************************************************************************)
Keys(obj) == [i \in 1..Len(obj) |-> obj[i].id]

KeySet(obj) == {obj[i].id : i \in 1..Len(obj)}

Has(obj, k) == \E i \in 1..Len(obj) : obj[i].id = k

Get(obj, k) == obj[CHOOSE i \in 1..Len(obj) : obj[i].id = k].value

\* obj[k] is truthy: present and not 0
Truthy(obj, k) == Has(obj, k) /\ Get(obj, k) # 0

\* obj[k] = v: an existing key keeps its position, a new key goes last
Put(obj, k, v) ==
    IF Has(obj, k)
    THEN [i \in 1..Len(obj) |-> IF obj[i].id = k THEN [id |-> k, value |-> v] ELSE obj[i]]
    ELSE Append(obj, [id |-> k, value |-> v])

\* Math.max() of no arguments is -Infinity: below every score
NegInfinity == -1

RECURSIVE MaxFrom(_, _, _)
MaxFrom(obj, i, acc) ==
    IF i > Len(obj) THEN acc
    ELSE MaxFrom(obj, i + 1, IF obj[i].value > acc THEN obj[i].value ELSE acc)

\* Math.max(...Object.values(obj))
MathMaxValues(obj) == MaxFrom(obj, 1, NegInfinity)

RECURSIVE FilterFrom(_, _, _, _)
FilterFrom(ids, obj, v, i) ==
    IF i > Len(ids) THEN <<>>
    ELSE (IF Get(obj, ids[i]) = v THEN <<ids[i]>> ELSE <<>>)
         \o FilterFrom(ids, obj, v, i + 1)

\* ids.filter((id) => obj[id] === v)
FilterEqual(ids, obj, v) == FilterFrom(ids, obj, v, 1)

(***************************************************************************)
(* The question catalog (the questions collection, ordered by 'order').    *)
(***************************************************************************)
Entry(k, v) == [id |-> k, value |-> v]

Option(oid, scoring) == [id |-> oid, scores |-> scoring]

Questions ==
    << [id |-> "q1", weight |-> 4, order |-> 1, options |->
          << Option("a", <<Entry("architect", 3), Entry("leader", 1)>>),
             Option("b", <<Entry("beta", 2), Entry("alpha", 1)>>) >>],
       [id |-> "q2", weight |-> 2, order |-> 2, options |->
          << Option("a", <<Entry("architect", 3)>>),
             Option("b", <<Entry("beta", 3), Entry("alpha", 4)>>),
             Option("c", <<Entry("alpha", 3), Entry("beta", 1)>>) >>],
       [id |-> "q3", weight |-> 5, order |-> 3, options |->
          << Option("a", <<Entry("leader", 3)>>),
             Option("b", <<>>),
             Option("c", <<Entry("explorer", 0), Entry("leader", 3), Entry("Zen", 3)>>) >>],
       [id |-> "q4", weight |-> 2, order |-> 4, options |->
          << Option("a", <<Entry("alpha", 2), Entry("beta", 3)>>),
             Option("b", <<Entry("leader", 3), Entry("architect", 3)>>) >>] >>

\* new Map(questions.map((q) => [q.id, q])): a later duplicate id replaces
\* an earlier one
QuestionMap(questions) ==
    [qid \in {questions[i].id : i \in 1..Len(questions)} |->
        questions[CHOOSE i \in 1..Len(questions) :
                     /\ questions[i].id = qid
                     /\ \A j \in (i + 1)..Len(questions) : questions[j].id # qid]]

\* questionMap.get(id) is defined
HasQuestion(questionMap, qid) == qid \in DOMAIN questionMap

\* question.options.find((opt) => opt.id === optionId): index of the first
\* match, 0 for undefined
FindOption(question, optionId) ==
    IF \E i \in 1..Len(question.options) : question.options[i].id = optionId
    THEN CHOOSE i \in 1..Len(question.options) :
            /\ question.options[i].id = optionId
            /\ \A j \in 1..(i - 1) : question.options[j].id # optionId
    ELSE 0

(***************************************************************************)
(* SubmitQuizDto (class-validator): ArrayMinSize(1)                        *)
(***************************************************************************)
NoError == [kind |-> "none", questionId |-> "", optionId |-> ""]

ValidationError(kind, qid, oid) == [kind |-> kind, questionId |-> qid, optionId |-> oid]

\* SubmitQuizDto with a seeded fault: the ArrayMinSize(1) decorator is left out
SubmitQuizDtoAnySize(answers) == NoError

SubmitQuizDto(answers) ==
    IF Len(answers) < 1 THEN ValidationError("EmptySubmission", "", "") ELSE NoError

(***************************************************************************)
(* QuizService.validateAnswers                                             *)
(***************************************************************************)
\* ValidateFrom with a seeded fault: the duplicate check comes after the
\* question and option checks
RECURSIVE ValidateFromDuplicateLast(_, _, _, _)
ValidateFromDuplicateLast(answers, questionMap, answeredQuestions, i) ==
    IF i > Len(answers) THEN NoError
    ELSE LET answer == answers[i] IN
         IF ~HasQuestion(questionMap, answer.questionId)
         THEN ValidationError("UnknownQuestion", answer.questionId, "")
         ELSE IF FindOption(questionMap[answer.questionId], answer.optionId) = 0
         THEN ValidationError("UnknownOption", answer.questionId, answer.optionId)
         ELSE IF answer.questionId \in answeredQuestions
         THEN ValidationError("DuplicateAnswer", answer.questionId, "")
         ELSE ValidateFromDuplicateLast(answers, questionMap,
            answeredQuestions \cup {answer.questionId}, i + 1)

\* ValidateFrom with a seeded fault: an unknown optionId is let through
RECURSIVE ValidateFromQuestionOnly(_, _, _, _)
ValidateFromQuestionOnly(answers, questionMap, answeredQuestions, i) ==
    IF i > Len(answers) THEN NoError
    ELSE LET answer == answers[i] IN
         IF answer.questionId \in answeredQuestions
         THEN ValidationError("DuplicateAnswer", answer.questionId, "")
         ELSE IF ~HasQuestion(questionMap, answer.questionId)
         THEN ValidationError("UnknownQuestion", answer.questionId, "")
         ELSE ValidateFromQuestionOnly(answers, questionMap,
            answeredQuestions \cup {answer.questionId}, i + 1)

\* ValidateFrom with a seeded fault: the whole list is walked and the error
\* of the last offending entry is the one thrown
RECURSIVE ValidateFromReportingLast(_, _, _, _)
ValidateFromReportingLast(answers, questionMap, answeredQuestions, i) ==
    IF i > Len(answers) THEN NoError
    ELSE LET answer == answers[i]
             later == ValidateFromReportingLast(answers, questionMap,
                          answeredQuestions \cup {answer.questionId}, i + 1)
         IN  IF later # NoError THEN later
             ELSE IF answer.questionId \in answeredQuestions
             THEN ValidationError("DuplicateAnswer", answer.questionId, "")
             ELSE IF ~HasQuestion(questionMap, answer.questionId)
             THEN ValidationError("UnknownQuestion", answer.questionId, "")
             ELSE IF FindOption(questionMap[answer.questionId], answer.optionId) = 0
             THEN ValidationError("UnknownOption", answer.questionId, answer.optionId)
             ELSE NoError

\* ValidateFrom with a seeded fault: a questionId seen before is let through
RECURSIVE ValidateFromAllowingRepeats(_, _, _, _)
ValidateFromAllowingRepeats(answers, questionMap, answeredQuestions, i) ==
    IF i > Len(answers) THEN NoError
    ELSE LET answer == answers[i] IN
         IF ~HasQuestion(questionMap, answer.questionId)
         THEN ValidationError("UnknownQuestion", answer.questionId, "")
         ELSE IF FindOption(questionMap[answer.questionId], answer.optionId) = 0
         THEN ValidationError("UnknownOption", answer.questionId, answer.optionId)
         ELSE ValidateFromAllowingRepeats(answers, questionMap,
            answeredQuestions \cup {answer.questionId}, i + 1)

RECURSIVE ValidateFrom(_, _, _, _)
ValidateFrom(answers, questionMap, answeredQuestions, i) ==
    IF i > Len(answers) THEN NoError
    ELSE LET answer == answers[i] IN
         IF answer.questionId \in answeredQuestions
         THEN ValidationError("DuplicateAnswer", answer.questionId, "")
         ELSE IF ~HasQuestion(questionMap, answer.questionId)
         THEN ValidationError("UnknownQuestion", answer.questionId, "")
         ELSE IF FindOption(questionMap[answer.questionId], answer.optionId) = 0
         THEN ValidationError("UnknownOption", answer.questionId, answer.optionId)
         ELSE ValidateFrom(answers, questionMap,
                           answeredQuestions \cup {answer.questionId}, i + 1)

validateAnswers(answers, questionMap) == ValidateFrom(answers, questionMap, {}, 1)

(***************************************************************************)
(* QuizService.calculateScores                                             *)
(***************************************************************************)
\* AddWeighted with a seeded fault: the question weight is left out
AddUnweighted(scores, personalityId, weight, points) ==
    LET zeroed == IF ~Truthy(scores, personalityId)
                  THEN Put(scores, personalityId, 0) ELSE scores
    IN  Put(zeroed, personalityId, Get(zeroed, personalityId) + points)

\* AddWeighted with a seeded fault: an entry of 0 points is skipped and
\* leaves no key
AddWeightedSkippingZero(scores, personalityId, weight, points) ==
    IF points = 0 THEN scores
    ELSE LET zeroed == IF ~Truthy(scores, personalityId)
                       THEN Put(scores, personalityId, 0) ELSE scores
         IN  Put(zeroed, personalityId, Get(zeroed, personalityId) + weight * points)

\* AddWeighted with a seeded fault: '-=' in place of '+='
AddWeightedSubtracting(scores, personalityId, weight, points) ==
    LET zeroed == IF ~Truthy(scores, personalityId)
                  THEN Put(scores, personalityId, 0) ELSE scores
    IN  Put(zeroed, personalityId, Get(zeroed, personalityId) - weight * points)

\* AddWeighted with a seeded fault: '=' in place of '+='
AddOverwriting(scores, personalityId, weight, points) ==
    Put(scores, personalityId, weight * points)

\* if (!scores[id]) scores[id] = 0;  scores[id] += weight * points
AddWeighted(scores, personalityId, weight, points) ==
    LET zeroed == IF ~Truthy(scores, personalityId)
                  THEN Put(scores, personalityId, 0) ELSE scores
    IN  Put(zeroed, personalityId, Get(zeroed, personalityId) + weight * points)

RECURSIVE ApplyOption(_, _, _, _)
\* for (const [personalityId, points] of Object.entries(option.scores))
ApplyOption(scores, weight, entries, i) ==
    IF i > Len(entries) THEN scores
    ELSE ApplyOption(AddWeighted(scores, entries[i].id, weight, entries[i].value),
                     weight, entries, i + 1)

RECURSIVE ScoreFrom(_, _, _, _)
ScoreFrom(scores, answers, questionMap, i) ==
    IF i > Len(answers) THEN scores
    ELSE LET answer == answers[i] IN
         IF ~HasQuestion(questionMap, answer.questionId)
         THEN ScoreFrom(scores, answers, questionMap, i + 1)
         ELSE LET question == questionMap[answer.questionId]
                  o == FindOption(question, answer.optionId)
              IN  IF o = 0
                  THEN ScoreFrom(scores, answers, questionMap, i + 1)
                  ELSE ScoreFrom(ApplyOption(scores, question.weight,
                                             question.options[o].scores, 1),
                                 answers, questionMap, i + 1)

calculateScores(answers, questionMap) == ScoreFrom(<<>>, answers, questionMap, 1)

(***************************************************************************)
(* QuizService.calculateMaxContributions                                   *)
(***************************************************************************)
RECURSIVE InitContributions(_, _, _)
\* for (const personalityId of personalities) maxContributions[id] = 0
InitContributions(maxContributions, personalities, i) ==
    IF i > Len(personalities) THEN maxContributions
    ELSE InitContributions(Put(maxContributions, personalities[i], 0),
                           personalities, i + 1)

RECURSIVE ContributeUnweighted(_, _, _, _, _)
RECURSIVE ContributeLatest(_, _, _, _, _)
\* ContributeOption with a seeded fault: the contribution of the answer seen
\* last is kept, not the largest
ContributeLatest(maxContributions, weight, scoring, personalities, i) ==
    IF i > Len(personalities) THEN maxContributions
    ELSE LET personalityId == personalities[i] IN
         IF Truthy(scoring, personalityId)
         THEN ContributeLatest(
                  Put(maxContributions, personalityId, weight * Get(scoring, personalityId)),
                  weight, scoring, personalities, i + 1)
         ELSE ContributeLatest(maxContributions, weight, scoring, personalities, i + 1)

\* ContributeOption with a seeded fault: the contribution is the option's
\* points alone
ContributeUnweighted(maxContributions, weight, scoring, personalities, i) ==
    IF i > Len(personalities) THEN maxContributions
    ELSE LET personalityId == personalities[i] IN
         IF Truthy(scoring, personalityId)
         THEN LET contribution == Get(scoring, personalityId)
                  current == Get(maxContributions, personalityId)
              IN  ContributeUnweighted(
                      Put(maxContributions, personalityId,
                          IF contribution > current THEN contribution ELSE current),
                      weight, scoring, personalities, i + 1)
         ELSE ContributeUnweighted(maxContributions, weight, scoring, personalities, i + 1)

RECURSIVE ContributeOption(_, _, _, _, _)
\* for (const personalityId of personalities)
\*   if (option.scores[personalityId]) maxContributions[id] = Math.max(...)
ContributeOption(maxContributions, weight, scoring, personalities, i) ==
    IF i > Len(personalities) THEN maxContributions
    ELSE LET personalityId == personalities[i] IN
         IF Truthy(scoring, personalityId)
         THEN LET contribution == weight * Get(scoring, personalityId)
                  current == Get(maxContributions, personalityId)
              IN  ContributeOption(
                      Put(maxContributions, personalityId,
                          IF contribution > current THEN contribution ELSE current),
                      weight, scoring, personalities, i + 1)
         ELSE ContributeOption(maxContributions, weight, scoring, personalities, i + 1)

RECURSIVE ContributeFrom(_, _, _, _, _)
ContributeFrom(maxContributions, personalities, answers, questionMap, i) ==
    IF i > Len(answers) THEN maxContributions
    ELSE LET answer == answers[i] IN
         IF ~HasQuestion(questionMap, answer.questionId)
         THEN ContributeFrom(maxContributions, personalities, answers, questionMap, i + 1)
         ELSE LET question == questionMap[answer.questionId]
                  o == FindOption(question, answer.optionId)
              IN  IF o = 0
                  THEN ContributeFrom(maxContributions, personalities, answers,
                                      questionMap, i + 1)
                  ELSE ContributeFrom(
                           ContributeOption(maxContributions, question.weight,
                                            question.options[o].scores, personalities, 1),
                           personalities, answers, questionMap, i + 1)

calculateMaxContributions(personalities, answers, questionMap) ==
    ContributeFrom(InitContributions(<<>>, personalities, 1),
                   personalities, answers, questionMap, 1)

(***************************************************************************)
(* QuizService.resolveTopPersonality                                       *)
(***************************************************************************)
\* arr[0]
First(arr) == IF Len(arr) = 0 THEN Undefined ELSE arr[1]

\* resolveTopPersonality with a seeded fault: the filter on the maximum total
\* is left out, every category of the breakdown goes to the tie-break
resolveWithoutTotals(scores, answers, questionMap) ==
    LET topPersonalities == Keys(scores)
    IN  IF Len(topPersonalities) = 1
        THEN topPersonalities[1]
        ELSE LET maxContributions ==
                     calculateMaxContributions(topPersonalities, answers, questionMap)
                 maxContribution == MathMaxValues(maxContributions)
                 winnersAfterTieBreak ==
                     FilterEqual(topPersonalities, maxContributions, maxContribution)
             IN  First(Sort(winnersAfterTieBreak))

resolveTopPersonality(scores, answers, questionMap) ==
    LET maxScore == MathMaxValues(scores)
        topPersonalities == FilterEqual(Keys(scores), scores, maxScore)
    IN  IF Len(topPersonalities) = 1
        THEN topPersonalities[1]
        ELSE LET maxContributions ==
                     calculateMaxContributions(topPersonalities, answers, questionMap)
                 maxContribution == MathMaxValues(maxContributions)
                 winnersAfterTieBreak ==
                     FilterEqual(topPersonalities, maxContributions, maxContribution)
             IN  First(Sort(winnersAfterTieBreak))

(***************************************************************************)
(* State                                                                   *)
(***************************************************************************)
VARIABLES
    \* -- one submission body through the pure pipeline (SpecScoring) --
    body,        \* the answers of the request body
    stage,       \* "received", "accepted", "validated", "scored", "resolved", "rejected"
    rejection,   \* the validation error raised, NoError if none
    breakdown,   \* the ScoreBreakdown calculateScores returned
    winner,      \* the id resolveTopPersonality returned
    \* -- the collections and the submitQuiz calls in flight (Spec) --
    questions,   \* the questions collection, ordered by 'order'
    users,       \* the users collection: id -> [hasCompletedQuiz, quizToken]
    results,     \* the results collection: the set of stored QuizResult documents
    issued,      \* the ids nanoid() has generated
    pc,          \* call -> the await the call is suspended at
    caller,      \* call -> the authenticated user id (req.user.userId)
    submitted,   \* call -> the answers of its body
    local,       \* call -> its local variables scores, topPersonality, token
    outcome,     \* call -> what the call returned or threw
    wrote,       \* call -> the token of the Result it stored (history)
    flipped,     \* call -> whether it has written the gate (history)
    afterSuccess, \* call -> it started after a success of its user had returned (history)
    \* -- the retrieval of results (SpecRead) --
    response     \* the last retrieval request and what it returned or threw

scoringVars == <<body, stage, rejection, breakdown, winner>>

submitVars == <<questions, users, results, issued, pc, caller, submitted, local,
                outcome, wrote, flipped, afterSuccess>>

readVars == <<response>>

vars == <<body, stage, rejection, breakdown, winner,
          questions, users, results, issued, pc, caller, submitted, local,
          outcome, wrote, flipped, afterSuccess, response>>

(***************************************************************************)
(* Inputs                                                                  *)
(***************************************************************************)
Answer(qid, oid) == [questionId |-> qid, optionId |-> oid]

\* every (question, option) pair of the catalog
CatalogAnswers ==
    UNION {{Answer(Questions[i].id, Questions[i].options[j].id) :
               j \in 1..Len(Questions[i].options)} : i \in 1..Len(Questions)}

\* the catalog pairs, an option that is not of its question, a question that
\* is not in the catalog
AnswerChoices == CatalogAnswers \cup {Answer("q1", "z"), Answer("q9", "a")}

AnswerLists == UNION {[1..n -> AnswerChoices] : n \in 0..MaxAnswers}

Calls == 1..MaxCalls

UserIds == {"u1", "u2"}

\* the bodies the concurrent calls submit
SubmissionSamples ==
    { <<Answer("q1", "a"), Answer("q2", "a"), Answer("q3", "a")>>,
      <<Answer("q4", "b")>>,
      <<Answer("q3", "b")>>,
      <<Answer("q1", "a"), Answer("q1", "b")>>,
      <<Answer("q1", "z")>>,
      <<Answer("q9", "a")>>,
      <<>> }

\* user.quizToken is undefined
NoToken == 0

NoScores == <<>>

Pending == [status |-> "pending", error |-> NoError, token |-> NoToken,
            topPersonality |-> Undefined, scores |-> NoScores]

Failure(err) == [status |-> "error", error |-> err, token |-> NoToken,
                 topPersonality |-> Undefined, scores |-> NoScores]

Thrown(kind) == Failure(ValidationError(kind, "", ""))

NoLocals == [scores |-> NoScores, topPersonality |-> Undefined, token |-> NoToken]

ScoringIdle ==
    /\ body = <<>>
    /\ stage = "idle"
    /\ rejection = NoError
    /\ breakdown = NoScores
    /\ winner = Undefined

SubmitIdle ==
    /\ users = [u \in UserIds |-> [hasCompletedQuiz |-> FALSE, quizToken |-> NoToken]]
    /\ results = {}
    /\ issued = {}
    /\ pc = [c \in Calls |-> "idle"]
    /\ caller = [c \in Calls |-> "u1"]
    /\ submitted = [c \in Calls |-> <<>>]
    /\ local = [c \in Calls |-> NoLocals]
    /\ outcome = [c \in Calls |-> Pending]
    /\ wrote = [c \in Calls |-> NoToken]
    /\ flipped = [c \in Calls |-> FALSE]
    /\ afterSuccess = [c \in Calls |-> FALSE]

\* what a retrieval returns or throws
NoReply == [status |-> "none", error |-> "none", id |-> NoToken,
            topPersonality |-> Undefined, scores |-> NoScores]

ReadIdle == response = [op |-> "none", userId |-> "", token |-> NoToken, reply |-> NoReply]

(***************************************************************************)
(* SpecScoring: the pure pipeline of one submission                        *)
(***************************************************************************)
InitScoring ==
    /\ body \in AnswerLists
    /\ stage = "received"
    /\ rejection = NoError
    /\ breakdown = NoScores
    /\ winner = Undefined
    /\ questions = Questions
    /\ SubmitIdle
    /\ ReadIdle

\* ValidationPipe on SubmitQuizDto
DtoValidate ==
    /\ stage = "received"
    /\ rejection' = SubmitQuizDto(body)
    /\ stage' = IF SubmitQuizDto(body) = NoError THEN "accepted" ELSE "rejected"
    /\ UNCHANGED <<body, breakdown, winner>>
    /\ UNCHANGED submitVars
    /\ UNCHANGED readVars

Validate ==
    /\ stage = "accepted"
    /\ rejection' = validateAnswers(body, QuestionMap(questions))
    /\ stage' = IF validateAnswers(body, QuestionMap(questions)) = NoError
                THEN "validated" ELSE "rejected"
    /\ UNCHANGED <<body, breakdown, winner>>
    /\ UNCHANGED submitVars
    /\ UNCHANGED readVars

Score ==
    /\ stage = "validated"
    /\ breakdown' = calculateScores(body, QuestionMap(questions))
    /\ stage' = "scored"
    /\ UNCHANGED <<body, rejection, winner>>
    /\ UNCHANGED submitVars
    /\ UNCHANGED readVars

Resolve ==
    /\ stage = "scored"
    /\ winner' = resolveTopPersonality(breakdown, body, QuestionMap(questions))
    /\ stage' = "resolved"
    /\ UNCHANGED <<body, rejection, breakdown>>
    /\ UNCHANGED submitVars
    /\ UNCHANGED readVars

NextScoring == DtoValidate \/ Validate \/ Score \/ Resolve

SpecScoring == InitScoring /\ [][NextScoring]_vars

(***************************************************************************)
(* Spec: submitQuiz calls against the users and results collections.       *)
(* A call is suspended at each await; the step that resumes it runs to the *)
(* next await.  Reads of Firestore succeed; the two writes may be rejected *)
(* by the store.                                                           *)
(***************************************************************************)
Init ==
    /\ ScoringIdle
    /\ questions \in {Questions, <<>>}
    /\ SubmitIdle
    /\ ReadIdle

\* nanoid with a seeded fault: the same id every time
nanoidRepeating(used) == 1

\* nanoid(): an id that has not been generated before
nanoid(used) == CHOOSE t \in 1..(Cardinality(used) + 1) :
                    /\ t \notin used
                    /\ \A t2 \in 1..(t - 1) : t2 \in used

\* UsersService.findById: the user document, or null
UserExists(store, userId) == userId \in DOMAIN store

\* SetResult with a seeded fault: the document is stored under the userId,
\* so a second Result of the user replaces the first
SetResultPerUser(store, result) == {r \in store : r.userId # result.userId} \cup {result}

\* db.collection('results').doc(result.id).set(...): the document with this
\* id is created or replaced
SetResult(store, result) == {r \in store : r.id # result.id} \cup {result}

\* UpdateUser with a seeded fault: the update records the token and leaves
\* the flag
UpdateUserTokenOnly(store, userId, quizToken) ==
    [store EXCEPT ![userId] = [hasCompletedQuiz |-> store[userId].hasCompletedQuiz,
                               quizToken |-> quizToken]]

\* db.collection('users').doc(userId).update({hasCompletedQuiz: true, quizToken})
UpdateUser(store, userId, quizToken) ==
    [store EXCEPT ![userId] = [hasCompletedQuiz |-> TRUE, quizToken |-> quizToken]]

Finish(c, result) ==
    /\ pc' = [pc EXCEPT ![c] = "done"]
    /\ outcome' = [outcome EXCEPT ![c] = result]

\* POST /quiz/submit arrives: JwtAuthGuard names the user, the ValidationPipe
\* checks the body, submitQuiz starts and awaits hasCompletedQuiz
Submit(c, userId, answers) ==
    /\ pc[c] = "idle"
    /\ \A c2 \in 1..(c - 1) : pc[c2] # "idle"
    /\ caller' = [caller EXCEPT ![c] = userId]
    /\ submitted' = [submitted EXCEPT ![c] = answers]
    /\ afterSuccess' = [afterSuccess EXCEPT ![c] =
           \E c2 \in Calls : caller[c2] = userId /\ outcome[c2].status = "success"]
    /\ IF SubmitQuizDto(answers) # NoError
       THEN Finish(c, Failure(SubmitQuizDto(answers)))
       ELSE /\ pc' = [pc EXCEPT ![c] = "gate"]
            /\ UNCHANGED outcome
    /\ UNCHANGED <<questions, users, results, issued, local, wrote, flipped>>
    /\ UNCHANGED scoringVars
    /\ UNCHANGED readVars

\* HasCompletedQuiz with a seeded fault: the call goes on to getQuestions
\* without looking at the flag
HasCompletedQuizUnread(c) ==
    /\ pc[c] = "gate"
    /\ pc' = [pc EXCEPT ![c] = "questions"]
    /\ UNCHANGED <<questions, users, results, issued, caller, submitted, local,
                   outcome, wrote, flipped, afterSuccess>>
    /\ UNCHANGED scoringVars
    /\ UNCHANGED readVars

\* hasCompletedQuiz resolves; ForbiddenException when the flag is set,
\* otherwise the call awaits getQuestions
HasCompletedQuiz(c) ==
    /\ pc[c] = "gate"
    /\ IF ~UserExists(users, caller[c])
       THEN Finish(c, Thrown("UserNotFound"))
       ELSE IF users[caller[c]].hasCompletedQuiz
       THEN Finish(c, Thrown("AlreadyCompleted"))
       ELSE /\ pc' = [pc EXCEPT ![c] = "questions"]
            /\ UNCHANGED outcome
    /\ UNCHANGED <<questions, users, results, issued, caller, submitted, local,
                   wrote, flipped, afterSuccess>>
    /\ UNCHANGED scoringVars
    /\ UNCHANGED readVars

\* ScoreSubmission with a seeded fault: the scores accumulate in a field of
\* the service that the calls share, instead of a local of the call
ScoreSubmissionShared(c) ==
    /\ pc[c] = "questions"
    /\ IF Len(questions) = 0
       THEN /\ Finish(c, Thrown("CatalogUnavailable"))
            /\ UNCHANGED <<local, issued>>
       ELSE LET questionMap == QuestionMap(questions)
                answers == submitted[c]
                invalid == validateAnswers(answers, questionMap)
                shared == IF \E c2 \in Calls : local[c2].token # NoToken
                          THEN local[CHOOSE c2 \in Calls : local[c2].token # NoToken].scores
                          ELSE NoScores
                scores == ScoreFrom(shared, answers, questionMap, 1)
                topPersonality == resolveTopPersonality(scores, answers, questionMap)
                token == nanoid(issued)
            IN  IF invalid # NoError
                THEN /\ Finish(c, Failure(invalid))
                     /\ UNCHANGED <<local, issued>>
                ELSE /\ local' = [local EXCEPT ![c] =
                            [scores |-> scores, topPersonality |-> topPersonality,
                             token |-> token]]
                     /\ issued' = issued \cup {token}
                     /\ pc' = [pc EXCEPT ![c] = "save"]
                     /\ UNCHANGED outcome
    /\ UNCHANGED <<questions, users, results, caller, submitted, wrote, flipped,
                   afterSuccess>>
    /\ UNCHANGED scoringVars
    /\ UNCHANGED readVars

\* ScoreSubmission with a seeded fault: the Result is written before the
\* answers are validated
ScoreSubmissionSavingFirst(c) ==
    /\ pc[c] = "questions"
    /\ IF Len(questions) = 0
       THEN /\ Finish(c, Thrown("CatalogUnavailable"))
            /\ UNCHANGED <<local, issued, results, wrote>>
       ELSE LET questionMap == QuestionMap(questions)
                answers == submitted[c]
                invalid == validateAnswers(answers, questionMap)
                scores == calculateScores(answers, questionMap)
                topPersonality == resolveTopPersonality(scores, answers, questionMap)
                token == nanoid(issued)
            IN  /\ local' = [local EXCEPT ![c] =
                       [scores |-> scores, topPersonality |-> topPersonality,
                        token |-> token]]
                /\ issued' = issued \cup {token}
                /\ results' = SetResult(results,
                       [id |-> token, userId |-> caller[c],
                        topPersonality |-> topPersonality, scores |-> scores,
                        answers |-> answers])
                /\ wrote' = [wrote EXCEPT ![c] = token]
                /\ IF invalid # NoError
                   THEN Finish(c, Failure(invalid))
                   ELSE /\ pc' = [pc EXCEPT ![c] = "mark"]
                        /\ UNCHANGED outcome
    /\ UNCHANGED <<questions, users, caller, submitted, flipped, afterSuccess>>
    /\ UNCHANGED scoringVars
    /\ UNCHANGED readVars

\* getQuestions resolves; validateAnswers, calculateScores,
\* resolveTopPersonality and nanoid run, and the call awaits saveResult
ScoreSubmission(c) ==
    /\ pc[c] = "questions"
    /\ IF Len(questions) = 0
       THEN /\ Finish(c, Thrown("CatalogUnavailable"))
            /\ UNCHANGED <<local, issued>>
       ELSE LET questionMap == QuestionMap(questions)
                answers == submitted[c]
                invalid == validateAnswers(answers, questionMap)
                scores == calculateScores(answers, questionMap)
                topPersonality == resolveTopPersonality(scores, answers, questionMap)
                token == nanoid(issued)
            IN  IF invalid # NoError
                THEN /\ Finish(c, Failure(invalid))
                     /\ UNCHANGED <<local, issued>>
                ELSE /\ local' = [local EXCEPT ![c] =
                            [scores |-> scores, topPersonality |-> topPersonality,
                             token |-> token]]
                     /\ issued' = issued \cup {token}
                     /\ pc' = [pc EXCEPT ![c] = "save"]
                     /\ UNCHANGED outcome
    /\ UNCHANGED <<questions, users, results, caller, submitted, wrote, flipped,
                   afterSuccess>>
    /\ UNCHANGED scoringVars
    /\ UNCHANGED readVars

\* the QuizResult document submitQuiz builds (createdAt left out)
\* ResultOf with a seeded fault: the answers are stored in reverse order
ResultOfReversed(c) ==
    [id |-> local[c].token, userId |-> caller[c],
     topPersonality |-> local[c].topPersonality, scores |-> local[c].scores,
     answers |-> [i \in 1..Len(submitted[c]) |->
                     submitted[c][Len(submitted[c]) + 1 - i]]]

ResultOf(c) ==
    [id |-> local[c].token, userId |-> caller[c],
     topPersonality |-> local[c].topPersonality, scores |-> local[c].scores,
     answers |-> submitted[c]]

\* SaveResult with a seeded fault: the gate is written before the Result, so
\* a failed write leaves the gate flipped
SaveResultAfterGate(c) ==
    /\ pc[c] = "save"
    /\ users' = UpdateUser(users, caller[c], local[c].token)
    /\ flipped' = [flipped EXCEPT ![c] = TRUE]
    /\ \/ /\ local[c].topPersonality # Undefined
          /\ results' = SetResult(results, ResultOf(c))
          /\ wrote' = [wrote EXCEPT ![c] = local[c].token]
          /\ pc' = [pc EXCEPT ![c] = "mark"]
          /\ UNCHANGED outcome
       \/ /\ local[c].topPersonality = Undefined
          /\ Finish(c, Thrown("InvalidDocument"))
          /\ UNCHANGED <<results, wrote>>
       \/ /\ Finish(c, Thrown("StoreUnavailable"))
          /\ UNCHANGED <<results, wrote>>
    /\ UNCHANGED <<questions, issued, caller, submitted, local, afterSuccess>>
    /\ UNCHANGED scoringVars
    /\ UNCHANGED readVars

\* SaveResult with a seeded fault: the write is not awaited and has not
\* landed when the call moves on to the gate
SaveResultNotAwaited(c) ==
    /\ pc[c] = "save"
    /\ pc' = [pc EXCEPT ![c] = "mark"]
    /\ UNCHANGED <<questions, users, results, issued, caller, submitted, local,
                   outcome, wrote, flipped, afterSuccess>>
    /\ UNCHANGED scoringVars
    /\ UNCHANGED readVars

\* saveResult: the document is written and the call awaits
\* markQuizCompleted; Firestore refuses a document with an undefined field,
\* and the write may fail
SaveResult(c) ==
    /\ pc[c] = "save"
    /\ \/ /\ local[c].topPersonality # Undefined
          /\ results' = SetResult(results, ResultOf(c))
          /\ wrote' = [wrote EXCEPT ![c] = local[c].token]
          /\ pc' = [pc EXCEPT ![c] = "mark"]
          /\ UNCHANGED outcome
       \/ /\ local[c].topPersonality = Undefined
          /\ Finish(c, Thrown("InvalidDocument"))
          /\ UNCHANGED <<results, wrote>>
       \/ /\ Finish(c, Thrown("StoreUnavailable"))
          /\ UNCHANGED <<results, wrote>>
    /\ UNCHANGED <<questions, users, issued, caller, submitted, local, flipped,
                   afterSuccess>>
    /\ UNCHANGED scoringVars
    /\ UNCHANGED readVars

\* markQuizCompleted: the gate is written and submitQuiz returns
\* {token, topPersonality, scores}; the update may fail
MarkQuizCompleted(c) ==
    /\ pc[c] = "mark"
    /\ \/ /\ users' = UpdateUser(users, caller[c], local[c].token)
          /\ flipped' = [flipped EXCEPT ![c] = TRUE]
          /\ Finish(c, [status |-> "success", error |-> NoError,
                        token |-> local[c].token,
                        topPersonality |-> local[c].topPersonality,
                        scores |-> local[c].scores])
       \/ /\ Finish(c, Thrown("StoreUnavailable"))
          /\ UNCHANGED <<users, flipped>>
    /\ UNCHANGED <<questions, results, issued, caller, submitted, local, wrote,
                   afterSuccess>>
    /\ UNCHANGED scoringVars
    /\ UNCHANGED readVars

Next ==
    \/ \E c \in Calls, userId \in UserIds, answers \in SubmissionSamples :
          Submit(c, userId, answers)
    \/ \E c \in Calls : HasCompletedQuiz(c)
    \/ \E c \in Calls : ScoreSubmission(c)
    \/ \E c \in Calls : SaveResult(c)
    \/ \E c \in Calls : MarkQuizCompleted(c)

Spec == Init /\ [][Next]_vars

(***************************************************************************)
(* Retrieval: GET /quiz/result/:token and GET /quiz/my-result, both behind *)
(* JwtAuthGuard.  A retrieval only reads; a Result document is never       *)
(* rewritten once stored (ids are fresh), so the reads of one retrieval    *)
(* are taken in one step.  The personalities collection holds a document   *)
(* for every category the catalog names, as the seed script writes it.     *)
(***************************************************************************)
Personalities == {"Zen", "alpha", "architect", "beta", "explorer", "leader"}

ReadError(kind) == [status |-> "error", error |-> kind, id |-> NoToken,
                    topPersonality |-> Undefined, scores |-> NoScores]

\* the documents of the results collection with this id
DocsWithId(store, token) == {r \in store : r.id = token}

\* getResult with a seeded fault: the ownership check is left out
getResultOfAnyone(store, token, userId) ==
    IF DocsWithId(store, token) = {} THEN ReadError("ResultNotFound")
    ELSE LET result == CHOOSE r \in DocsWithId(store, token) : TRUE IN
         IF result.topPersonality \notin Personalities
         THEN ReadError("PersonalityNotFound")
         ELSE [status |-> "ok", error |-> "none", id |-> result.id,
               topPersonality |-> result.topPersonality, scores |-> result.scores]

\* QuizService.getResult
getResult(store, token, userId) ==
    IF DocsWithId(store, token) = {} THEN ReadError("ResultNotFound")
    ELSE LET result == CHOOSE r \in DocsWithId(store, token) : TRUE IN
         IF result.userId # userId THEN ReadError("NotOwner")
         ELSE IF result.topPersonality \notin Personalities
         THEN ReadError("PersonalityNotFound")
         ELSE [status |-> "ok", error |-> "none", id |-> result.id,
               topPersonality |-> result.topPersonality, scores |-> result.scores]

\* QuizService.getMyResult
getMyResult(userStore, store, userId) ==
    IF \/ ~UserExists(userStore, userId)
       \/ ~userStore[userId].hasCompletedQuiz
       \/ userStore[userId].quizToken = NoToken
    THEN ReadError("NotCompleted")
    ELSE getResult(store, userStore[userId].quizToken, userId)

\* the tokens a client may ask for: every token a call can be given and one
\* that is never generated
Tokens == 1..(MaxCalls + 1)

\* the submission made in SpecRead: the README example; what is retrieved
\* does not depend on which valid answers were stored
RetrievalSamples == {<<Answer("q1", "a"), Answer("q2", "a"), Answer("q3", "a")>>}

\* GET /quiz/result/:token by an authenticated user
GetResult(token, userId) ==
    /\ response' = [op |-> "getResult", userId |-> userId, token |-> token,
                    reply |-> getResult(results, token, userId)]
    /\ UNCHANGED submitVars
    /\ UNCHANGED scoringVars

\* GET /quiz/my-result by an authenticated user
GetMyResult(userId) ==
    /\ response' = [op |-> "getMyResult", userId |-> userId, token |-> NoToken,
                    reply |-> getMyResult(users, results, userId)]
    /\ UNCHANGED submitVars
    /\ UNCHANGED scoringVars

NextRead ==
    \/ \E c \in Calls, userId \in UserIds, answers \in RetrievalSamples :
          Submit(c, userId, answers)
    \/ \E c \in Calls : HasCompletedQuiz(c)
    \/ \E c \in Calls : ScoreSubmission(c)
    \/ \E c \in Calls : SaveResult(c)
    \/ \E c \in Calls : MarkQuizCompleted(c)
    \/ \E token \in Tokens, userId \in UserIds : GetResult(token, userId)
    \/ \E userId \in UserIds : GetMyResult(userId)

SpecRead == Init /\ [][NextRead]_vars

(***************************************************************************)
(* SpecGate: the same calls against collections in which user u1 completed *)
(* the quiz in an earlier session: the gate of u1 is flipped and the       *)
(* Result of u1 is stored.  The catalog may have been emptied since.       *)
(***************************************************************************)
EarlierAnswers == <<Answer("q1", "a"), Answer("q2", "a"), Answer("q3", "a")>>

EarlierToken == nanoid({})

EarlierResult ==
    LET scores == calculateScores(EarlierAnswers, QuestionMap(Questions)) IN
    [id |-> EarlierToken, userId |-> "u1",
     topPersonality |-> resolveTopPersonality(scores, EarlierAnswers, QuestionMap(Questions)),
     scores |-> scores, answers |-> EarlierAnswers]

InitGate ==
    /\ ScoringIdle
    /\ questions \in {Questions, <<>>}
    /\ users = [u \in UserIds |->
                   IF u = "u1"
                   THEN [hasCompletedQuiz |-> TRUE, quizToken |-> EarlierToken]
                   ELSE [hasCompletedQuiz |-> FALSE, quizToken |-> NoToken]]
    /\ results = {EarlierResult}
    /\ issued = {EarlierToken}
    /\ pc = [c \in Calls |-> "idle"]
    /\ caller = [c \in Calls |-> "u1"]
    /\ submitted = [c \in Calls |-> <<>>]
    /\ local = [c \in Calls |-> NoLocals]
    /\ outcome = [c \in Calls |-> Pending]
    /\ wrote = [c \in Calls |-> NoToken]
    /\ flipped = [c \in Calls |-> FALSE]
    /\ afterSuccess = [c \in Calls |-> FALSE]
    /\ ReadIdle

SpecGate == InitGate /\ [][Next]_vars

(***************************************************************************)
(* Reference notions used to state the properties.  They are written over  *)
(* sets, independently of the iteration order of the operators above.      *)
(***************************************************************************)
Range(seq) == {seq[i] : i \in 1..Len(seq)}

\* every personality id some option of the catalog names
Categories == UNION {UNION {KeySet(o.scores) : o \in Range(q.options)} : q \in Range(Questions)}

QuestionOf(qid) == CHOOSE q \in Range(Questions) : q.id = qid

OptionOf(answer) ==
    CHOOSE o \in Range(QuestionOf(answer.questionId).options) : o.id = answer.optionId

\* the points the selected option awards to cat, 0 when it does not name it
PointsFor(answer, cat) ==
    LET named == {e \in Range(OptionOf(answer).scores) : e.id = cat}
    IN  IF named = {} THEN 0 ELSE (CHOOSE e \in named : TRUE).value

\* question.weight times the points the selected option awards to cat
Contribution(answer, cat) == QuestionOf(answer.questionId).weight * PointsFor(answer, cat)

RECURSIVE SumContributions(_, _, _)
SumContributions(answers, positions, cat) ==
    IF positions = {} THEN 0
    ELSE LET i == CHOOSE j \in positions : TRUE
         IN  Contribution(answers[i], cat) + SumContributions(answers, positions \ {i}, cat)

\* the sum over all answers of the weighted points for cat
WeightedTotal(answers, cat) == SumContributions(answers, DOMAIN answers, cat)

\* the categories some selected option names
Named(answers) == UNION {KeySet(OptionOf(answers[i]).scores) : i \in DOMAIN answers}

\* the largest single-question contribution to cat, 0 when there is none
MaxSingleContribution(answers, cat) ==
    LET all == {Contribution(answers[i], cat) : i \in DOMAIN answers} \cup {0}
    IN  CHOOSE m \in all : \A n \in all : n <= m

\* the ScoreBreakdown as a mapping, forgetting the key order
AsMapping(obj) == {<<obj[i].id, obj[i].value>> : i \in 1..Len(obj)}

\* the categories of the breakdown whose total is the largest
Contenders(obj) == {k \in KeySet(obj) : \A k2 \in KeySet(obj) : Get(obj, k2) <= Get(obj, k)}

\* the contenders whose largest single-question contribution is the largest
StrongestContenders(obj, answers) ==
    {k \in Contenders(obj) :
        \A k2 \in Contenders(obj) :
            MaxSingleContribution(answers, k2) <= MaxSingleContribution(answers, k)}

\* x comes strictly before y in ascending lexicographic order of code units
LexBefore(x, y) ==
    LET a == CodeUnits(x)
        b == CodeUnits(y)
    IN  \E n \in 0..Len(a) :
            /\ n <= Len(b)
            /\ \A i \in 1..n : a[i] = b[i]
            /\ \/ n = Len(a) /\ n < Len(b)
               \/ n < Len(a) /\ n < Len(b) /\ a[n + 1] < b[n + 1]

Orderings(n) == {p \in [1..n -> 1..n] : \A i, j \in 1..n : p[i] = p[j] => i = j}

Permuted(answers, p) == [i \in 1..Len(answers) |-> answers[p[i]]]

Scored == stage \in {"scored", "resolved"}

ReadmeExample == <<Answer("q1", "a"), Answer("q2", "a"), Answer("q3", "a")>>

(***************************************************************************)
(* Properties of scoring (checked under SpecScoring)                       *)
(***************************************************************************)

\* C4: for every validated answer set the ScoreBreakdown gives each category
\* the sum over all answers of question.weight times the points the selected
\* option awards to it (a category the breakdown lacks has sum 0, and the
\* breakdown names no category the selected options do not name); the README
\* example yields architect = 18, leader = 19 and winner leader.
C4_WeightedSum ==
    /\ Scored =>
          /\ KeySet(breakdown) \subseteq Named(body)
          /\ \A cat \in Categories :
                IF Has(breakdown, cat)
                THEN Get(breakdown, cat) = WeightedTotal(body, cat)
                ELSE WeightedTotal(body, cat) = 0
    /\ (Scored /\ body = ReadmeExample) =>
          AsMapping(breakdown) = {<<"architect", 18>>, <<"leader", 19>>}
    /\ (stage = "resolved" /\ body = ReadmeExample) => winner = "leader"

C4_Witness ==
    /\ stage = "resolved"
    /\ body = ReadmeExample
    /\ Get(breakdown, "architect") = 18
    /\ Get(breakdown, "leader") = 19
    /\ winner = "leader"

\* C5: the category resolveTopPersonality returns has the maximum total of
\* the breakdown, and when exactly one category attains the maximum it is
\* the winner.
C5_WinnerHasMaxTotal ==
    (stage = "resolved" /\ Len(breakdown) > 0) =>
        /\ Has(breakdown, winner)
        /\ \A k \in KeySet(breakdown) : Get(breakdown, k) <= Get(breakdown, winner)
        /\ \A k \in KeySet(breakdown) :
              (\A k2 \in KeySet(breakdown) \ {k} : Get(breakdown, k2) < Get(breakdown, k))
                  => winner = k

\* a single category attains the maximum although another one made the
\* larger single-question contribution and sorts first
C5_Witness ==
    /\ stage = "resolved"
    /\ body = ReadmeExample
    /\ Contenders(breakdown) = {"leader"}
    /\ winner = "leader"
    /\ LexBefore("architect", "leader")
    /\ Keys(breakdown)[1] = "architect"

\* C6: when several categories tie on the maximum total, the winner is a
\* tied category whose largest single-question contribution is the largest
\* among the tied ones.
C6_TieBrokenByContribution ==
    (stage = "resolved" /\ Cardinality(Contenders(breakdown)) > 1) =>
        /\ winner \in Contenders(breakdown)
        /\ \A k \in Contenders(breakdown) :
              MaxSingleContribution(body, k) <= MaxSingleContribution(body, winner)

\* totals tie, the category with the larger single contribution wins though
\* it sorts after the other
C6_Witness ==
    /\ stage = "resolved"
    /\ Contenders(breakdown) = {"alpha", "beta"}
    /\ MaxSingleContribution(body, "beta") > MaxSingleContribution(body, "alpha")
    /\ winner = "beta"

\* the tie of the specification: 12 each, alpha has 8, beta 6
C6_WitnessTwelve ==
    /\ stage = "resolved"
    /\ AsMapping(breakdown) = {<<"alpha", 12>>, <<"beta", 12>>}
    /\ MaxSingleContribution(body, "alpha") = 8
    /\ MaxSingleContribution(body, "beta") = 6
    /\ winner = "alpha"

\* C7: when several categories tie on the maximum total and on the largest
\* single-question contribution, the winner is the one whose id is smallest
\* in ascending lexicographic order.
C7_LexicographicFallback ==
    (stage = "resolved" /\ Cardinality(StrongestContenders(breakdown, body)) > 1) =>
        /\ winner \in StrongestContenders(breakdown, body)
        /\ \A k \in StrongestContenders(breakdown, body) \ {winner} : LexBefore(winner, k)

\* a full tie whose first key in insertion order is not the winner
C7_Witness ==
    /\ stage = "resolved"
    /\ Cardinality(StrongestContenders(breakdown, body)) > 1
    /\ Keys(breakdown)[1] \in StrongestContenders(breakdown, body)
    /\ Keys(breakdown)[1] # winner
    /\ \A k \in StrongestContenders(breakdown, body) \ {winner} : LexBefore(winner, k)

\* C8 (as claimed): for every validated answer set resolveTopPersonality
\* returns a categoryId that is a key of the ScoreBreakdown, never undefined.
C8_AlwaysAWinner ==
    stage = "resolved" => (winner # Undefined /\ Has(breakdown, winner))

\* C10: for every validated answer set and every permutation of its answers
\* calculateScores returns the same ScoreBreakdown (same categories, same
\* totals).
C10_PermutationInvariant ==
    Scored =>
        \A p \in Orderings(Len(body)) :
            AsMapping(calculateScores(Permuted(body, p), QuestionMap(questions)))
                = AsMapping(breakdown)

\* three answers that feed a common category, scored
C10_Witness ==
    /\ Scored
    /\ Len(body) = 3
    /\ \E cat \in Categories : \A i \in 1..3 : Contribution(body[i], cat) > 0
    /\ \E p \in Orderings(3) :
          /\ Permuted(body, p) # body
          /\ Keys(calculateScores(Permuted(body, p), QuestionMap(questions)))
                # Keys(breakdown)

(***************************************************************************)
(* Properties of submitQuiz (checked under Spec)                           *)
(***************************************************************************)
ResultsOf(userId) == {r \in results : r.userId = userId}

Succeeded(c) == outcome[c].status = "success"

FailedWith(c, kind) == outcome[c].status = "error" /\ outcome[c].error.kind = kind

\* submitQuiz was invoked: the body passed the ValidationPipe
Invoked(c) == pc[c] # "idle" /\ SubmitQuizDto(submitted[c]) = NoError

\* C1 (as claimed): at most one Result of each user is in the result store,
\* also when calls of one user interleave, and at most one of the calls of a
\* user returns success.
C1_OneResultPerUser ==
    /\ \A userId \in UserIds : Cardinality(ResultsOf(userId)) <= 1
    /\ \A c1, c2 \in Calls :
          (c1 # c2 /\ caller[c1] = caller[c2]) => ~(Succeeded(c1) /\ Succeeded(c2))

\* C2: once a submitQuiz call of a user has returned success, every call of
\* that user started afterwards, whatever its answers, fails with
\* AlreadyCompleted and stores no Result.
C2_LaterCallsForbidden ==
    \A c \in Calls :
        (afterSuccess[c] /\ Invoked(c)) =>
            /\ pc[c] \in {"gate", "done"}
            /\ wrote[c] = NoToken
            /\ ~flipped[c]
            /\ pc[c] = "done" => FailedWith(c, "AlreadyCompleted")

\* after a success a call of the same user with other, invalid answers is
\* turned away by the gate, and the store holds the one Result
C2_Witness ==
    \E c1, c2 \in Calls :
        /\ Succeeded(c1)
        /\ caller[c2] = caller[c1]
        /\ afterSuccess[c2]
        /\ submitted[c2] = <<Answer("q1", "a"), Answer("q1", "b")>>
        /\ FailedWith(c2, "AlreadyCompleted")
        /\ Cardinality(results) = 1

ValidationKinds == {"DuplicateAnswer", "UnknownQuestion", "UnknownOption"}

\* C3: a submitQuiz call rejected by validation (duplicate questionId,
\* unknown questionId, unknown optionId) has written no Result, generated no
\* token and has not written the gate, and no stored Result carries its
\* answers.
C3_RejectedLeavesNoTrace ==
    \A c \in Calls :
        (outcome[c].status = "error" /\ outcome[c].error.kind \in ValidationKinds) =>
            /\ wrote[c] = NoToken
            /\ ~flipped[c]
            /\ local[c].token = NoToken
            /\ \A r \in results : r.answers # submitted[c]

\* two calls rejected by validation, for different reasons; the store is
\* empty and no gate is flipped
C3_Witness ==
    \E c1, c2 \in Calls :
        /\ FailedWith(c1, "DuplicateAnswer")
        /\ FailedWith(c2, "UnknownOption")
        /\ results = {}
        /\ \A userId \in UserIds :
              ~users[userId].hasCompletedQuiz /\ users[userId].quizToken = NoToken

\* C9: two successful submitQuiz calls of two different users with the same
\* answer list return the same ScoreBreakdown and the same winning category.
C9_SameAnswersSameVerdict ==
    \A c1, c2 \in Calls :
        (/\ Succeeded(c1) /\ Succeeded(c2)
         /\ caller[c1] # caller[c2]
         /\ submitted[c1] = submitted[c2]) =>
            /\ outcome[c1].scores = outcome[c2].scores
            /\ outcome[c1].topPersonality = outcome[c2].topPersonality

\* two users, the same answers, two tokens, two stored Results
C9_Witness ==
    \E c1, c2 \in Calls :
        /\ Succeeded(c1) /\ Succeeded(c2)
        /\ caller[c1] # caller[c2]
        /\ submitted[c1] = submitted[c2]
        /\ outcome[c1].token # outcome[c2].token
        /\ Cardinality(results) = 2

(***************************************************************************)
(* Properties of the validation of a submission                            *)
(***************************************************************************)
\* the questionId names a question of the catalog
InCatalog(qid) == \E q \in Range(Questions) : q.id = qid

\* the answer names an option of a question of the catalog
IdentifiesOption(answer) ==
    \E q \in Range(Questions) :
        q.id = answer.questionId /\ \E o \in Range(q.options) : o.id = answer.optionId

\* the questionId at position i occurred at an earlier position
Reappears(answers, i) == \E j \in 1..(i - 1) : answers[j].questionId = answers[i].questionId

Offending(answers) ==
    {i \in DOMAIN answers : Reappears(answers, i) \/ ~IdentifiesOption(answers[i])}

\* the first position holding an offending entry, 0 when there is none
FirstOffending(answers) ==
    IF Offending(answers) = {} THEN 0
    ELSE CHOOSE i \in Offending(answers) : \A j \in Offending(answers) : i <= j

\* validateAnswers has run on the body
Checked == stage \in {"validated", "scored", "resolved"}
              \/ (stage = "rejected" /\ SubmitQuizDto(body) = NoError)

\* C11: a submission whose answer list has no entry fails with
\* EmptySubmission; the call ends there: it stores no Result, generates no
\* token and does not write the gate.
C11_EmptyRejected ==
    \A c \in Calls :
        (pc[c] # "idle" /\ Len(submitted[c]) = 0) =>
            /\ pc[c] = "done"
            /\ FailedWith(c, "EmptySubmission")
            /\ wrote[c] = NoToken
            /\ ~flipped[c]
            /\ local[c].token = NoToken
            /\ \A r \in results : r.answers # submitted[c]

\* a user with no attempt sends the empty list: EmptySubmission, nothing
\* stored, gate unflipped
C11_Witness ==
    \E c \in Calls :
        /\ submitted[c] = <<>>
        /\ FailedWith(c, "EmptySubmission")
        /\ ResultsOf(caller[c]) = {}
        /\ ~users[caller[c]].hasCompletedQuiz

\* C12: when some questionId occurs more than once and no entry before the
\* first position i where a questionId reappears is invalid, validation
\* fails with DuplicateAnswer naming the questionId at position i.
C12_DuplicateAtFirstReappearance ==
    Checked =>
        \A i \in DOMAIN body :
            (/\ Reappears(body, i)
             /\ \A j \in 1..(i - 1) : ~Reappears(body, j) /\ IdentifiesOption(body[j])) =>
                /\ stage = "rejected"
                /\ rejection = ValidationError("DuplicateAnswer", body[i].questionId, "")

\* a valid entry, then a repeat of its questionId with an optionId the
\* question does not have, then an unknown question: DuplicateAnswer for q1
C12_Witness ==
    /\ body = <<Answer("q1", "a"), Answer("q1", "z"), Answer("q9", "a")>>
    /\ stage = "rejected"
    /\ rejection = ValidationError("DuplicateAnswer", "q1", "")

C13_WitnessQuestion ==
    /\ body = <<Answer("q9", "a"), Answer("q1", "a")>>
    /\ stage = "rejected"
    /\ rejection = ValidationError("UnknownQuestion", "q9", "")

(***************************************************************************)
(* Properties of accepted submissions (checked under Spec)                 *)
(***************************************************************************)
\* every entry names an option of a catalog question and no questionId
\* occurs twice
ValidAnswers(answers) ==
    /\ Len(answers) > 0
    /\ \A i \in DOMAIN answers : IdentifiesOption(answers[i]) /\ ~Reappears(answers, i)

\* valid answers that leave at least one question of the catalog out
ValidPartial(answers) ==
    /\ ValidAnswers(answers)
    /\ \E q \in Range(Questions) : \A i \in DOMAIN answers : answers[i].questionId # q.id

\* no other call has been made for the user of call c
OnlyAttempt(c) == \A c2 \in Calls \ {c} : pc[c2] = "idle" \/ caller[c2] # caller[c]

\* the call returned what submitQuiz returns and its Result is in the store
Accepted(c) ==
    /\ Succeeded(c)
    /\ outcome[c].token # NoToken
    /\ outcome[c].topPersonality # Undefined
    /\ \E r \in results :
          /\ r.id = outcome[c].token
          /\ r.userId = caller[c]
          /\ r.answers = submitted[c]
          /\ r.scores = outcome[c].scores
          /\ r.topPersonality = outcome[c].topPersonality

\* C14 (as claimed): a submission of a user with no attempt whose answers
\* are non-empty, valid, duplicate-free and cover a strict subset of the
\* catalog is accepted: once the call has ended, the stores having served
\* every write, it has returned a token, a winning category and a
\* ScoreBreakdown and its Result is stored.
C14_PartialAccepted ==
    \A c \in Calls :
        (/\ pc[c] = "done"
         /\ questions = Questions
         /\ ValidPartial(submitted[c])
         /\ OnlyAttempt(c)
         /\ ~FailedWith(c, "StoreUnavailable")) => Accepted(c)

(***************************************************************************)
(* Properties of the retrieval of results (checked under SpecRead)         *)
(***************************************************************************)
\* C15: a getResult(token, requester) step succeeds only when a Result with
\* that token is stored and its userId is the requester, and then returns
\* that Result; it fails with ResultNotFound when no stored Result has the
\* token and with NotOwner when the Result with the token belongs to
\* another user; no retrieval, by token or by getMyResult, hands a user the
\* Result of another user.
C15_OwnerOnly ==
    [][/\ \A token \in Tokens, userId \in UserIds :
            GetResult(token, userId) =>
                /\ response'.reply.status = "ok" =>
                      \E r \in results :
                          /\ r.id = token
                          /\ r.userId = userId
                          /\ response'.reply.id = r.id
                          /\ response'.reply.scores = r.scores
                          /\ response'.reply.topPersonality = r.topPersonality
                /\ (\A r \in results : r.id # token) =>
                      response'.reply = ReadError("ResultNotFound")
                /\ (\E r \in results : r.id = token /\ r.userId # userId) =>
                      response'.reply = ReadError("NotOwner")
       /\ \A userId \in UserIds :
            (GetMyResult(userId) /\ response'.reply.status = "ok") =>
                \E r \in results : r.id = response'.reply.id /\ r.userId = userId
      ]_vars

\* a user asks for the stored Result of another user and gets NotOwner
C15_Witness ==
    /\ response.op = "getResult"
    /\ response.reply = ReadError("NotOwner")
    /\ \E r \in results : r.id = response.token /\ r.userId # response.userId
    /\ \E c \in Calls : Succeeded(c) /\ outcome[c].token = response.token

\* the owner asks for the stored Result and gets it
C15_WitnessOwner ==
    /\ response.op = "getResult"
    /\ response.reply.status = "ok"
    /\ \E r \in results : r.id = response.token /\ r.userId = response.userId

\* a token no Result has
C15_WitnessNotFound ==
    /\ response.op = "getResult"
    /\ response.reply = ReadError("ResultNotFound")
    /\ results # {}

\* C16 (as claimed): a getMyResult(u) step fails with not-found as long as
\* the gate of u is unflipped or no quizToken is recorded, and once a
\* submitQuiz call of u has returned success with token t it returns the
\* Result whose id is t.
C16_MyResultIsTheReturnedOne ==
    [][\A userId \in UserIds :
          GetMyResult(userId) =>
              /\ (~users[userId].hasCompletedQuiz \/ users[userId].quizToken = NoToken) =>
                    response'.reply = ReadError("NotCompleted")
              /\ \A c \in Calls :
                    (Succeeded(c) /\ caller[c] = userId) =>
                        /\ response'.reply.status = "ok"
                        /\ response'.reply.id = outcome[c].token
                        /\ \E r \in results :
                              r.id = outcome[c].token /\ r.userId = userId
      ]_vars

(***************************************************************************)
(* Properties of concurrent submissions and of the gate (checked under     *)
(* Spec)                                                                   *)
(***************************************************************************)
\* the calls made so far are of pairwise distinct users
DistinctUsers ==
    \A c1, c2 \in Calls :
        (c1 # c2 /\ pc[c1] # "idle" /\ pc[c2] # "idle") => caller[c1] # caller[c2]

\* C17 (as claimed): when the submitQuiz calls are of pairwise distinct
\* users with no attempt and carry valid answers, every call that has
\* ended, the stores having served every write, has succeeded and its user
\* has exactly one Result; and, whoever the callers are, every stored Result
\* of a user was written by a call of that user and every flipped gate was
\* flipped by a call of its user.
C17_DistinctUsersAllSucceed ==
    /\ DistinctUsers =>
          \A c \in Calls :
              (/\ pc[c] = "done"
               /\ questions = Questions
               /\ ValidAnswers(submitted[c])
               /\ ~FailedWith(c, "StoreUnavailable")) =>
                  /\ Succeeded(c)
                  /\ Cardinality(ResultsOf(caller[c])) = 1
    /\ \A r \in results : \E c \in Calls : caller[c] = r.userId /\ wrote[c] = r.id
    /\ \A userId \in UserIds :
          users[userId].hasCompletedQuiz =>
              \E c \in Calls : caller[c] = userId /\ flipped[c]

C19_GateWrittenOnce ==
    [][\A userId \in UserIds :
          /\ users[userId].hasCompletedQuiz => users'[userId].hasCompletedQuiz
          /\ users[userId].quizToken # NoToken =>
                users'[userId].quizToken = users[userId].quizToken
      ]_vars

\* C20: whenever the gate of a user is flipped, the recorded quizToken is
\* the token of a stored Result of that user; a call that has flipped the
\* gate had stored its Result before and flipped the gate with its token.
C20_GateNamesStoredResult ==
    /\ \A userId \in UserIds :
          users[userId].hasCompletedQuiz =>
              \E r \in results : r.id = users[userId].quizToken /\ r.userId = userId
    /\ \A c \in Calls :
          flipped[c] =>
              /\ wrote[c] # NoToken
              /\ wrote[c] = local[c].token
              /\ \E r \in results : r.id = wrote[c] /\ r.userId = caller[c]

\* one user has the gate flipped with the token of the stored Result, the
\* call of another user has stored its Result and not yet written the gate
C20_Witness ==
    \E c1, c2 \in Calls :
        /\ Succeeded(c1)
        /\ users[caller[c1]] = [hasCompletedQuiz |-> TRUE, quizToken |-> outcome[c1].token]
        /\ caller[c2] # caller[c1]
        /\ pc[c2] = "mark"
        /\ ~users[caller[c2]].hasCompletedQuiz
        /\ ResultsOf(caller[c2]) # {}

(***************************************************************************)
(* Properties of the order of the checks in submitQuiz (checked under      *)
(* SpecGate)                                                               *)
(***************************************************************************)
\* the gate of the caller was flipped when call c started: a success of
\* the user had returned, or the gate is flipped and no call has written it
GateFlippedAtStart(c) ==
    \/ afterSuccess[c]
    \/ /\ users[caller[c]].hasCompletedQuiz
       /\ \A c2 \in Calls : caller[c2] = caller[c] => ~flipped[c2]

\* C21: a submitQuiz call of a user whose gate is already flipped gets no
\* further than the gate read and ends with AlreadyCompleted, also when its
\* answers are invalid or the catalog is empty: it never ends with a
\* validation error or a catalog error, and it stores nothing.
C21_GateReadFirst ==
    \A c \in Calls :
        (Invoked(c) /\ GateFlippedAtStart(c)) =>
            /\ pc[c] \in {"gate", "done"}
            /\ pc[c] = "done" => FailedWith(c, "AlreadyCompleted")
            /\ outcome[c].error.kind \notin ValidationKinds \cup {"CatalogUnavailable"}
            /\ wrote[c] = NoToken

\* the catalog is empty, the gate of u1 is flipped, u1 posts an answer for
\* an unknown question: AlreadyCompleted
C21_Witness ==
    \E c \in Calls :
        /\ questions = <<>>
        /\ caller[c] = "u1"
        /\ submitted[c] = <<Answer("q9", "a")>>
        /\ FailedWith(c, "AlreadyCompleted")

\* the catalog is there, the answers repeat a question: AlreadyCompleted
C21_WitnessInvalid ==
    \E c \in Calls :
        /\ questions = Questions
        /\ caller[c] = "u1"
        /\ submitted[c] = <<Answer("q1", "a"), Answer("q1", "b")>>
        /\ FailedWith(c, "AlreadyCompleted")

(***************************************************************************)
(* Properties of validateAnswers as a check (SpecScoring)                  *)
(***************************************************************************)
\* the errors the entry at position i can be charged with
ErrorsOf(answers, i) ==
    (IF Reappears(answers, i)
     THEN {ValidationError("DuplicateAnswer", answers[i].questionId, "")} ELSE {})
    \cup
    (IF ~InCatalog(answers[i].questionId)
     THEN {ValidationError("UnknownQuestion", answers[i].questionId, "")} ELSE {})
    \cup
    (IF InCatalog(answers[i].questionId) /\ ~IdentifiesOption(answers[i])
     THEN {ValidationError("UnknownOption", answers[i].questionId, answers[i].optionId)}
     ELSE {})

\* C22: validateAnswers accepts a list with no offending entry; otherwise
\* the error it reports is an error of the entry that comes first, in list
\* order, among the offending entries (repeat of an earlier questionId,
\* questionId not in the catalog, optionId not an option of the question),
\* whatever offends later in the list; and no step of the validation
\* changes the answers or the catalog.
C22_FirstOffendingReported ==
    /\ [](Checked =>
            IF FirstOffending(body) = 0
            THEN stage # "rejected" /\ rejection = NoError
            ELSE /\ stage = "rejected"
                 /\ rejection \in ErrorsOf(body, FirstOffending(body)))
    /\ [][body' = body /\ questions' = questions]_vars

\* an unknown question at position 2 and a repeat at position 3: the
\* unknown question is reported
C22_Witness ==
    /\ body = <<Answer("q2", "a"), Answer("q9", "a"), Answer("q2", "b")>>
    /\ stage = "rejected"
    /\ rejection = ValidationError("UnknownQuestion", "q9", "")

(***************************************************************************)
(* Properties of failed submissions and of the result store (Spec)         *)
(***************************************************************************)
StoreErrors == {"StoreUnavailable", "InvalidDocument"}

\* call c got as far as saveResult and the write failed
SaveFailed(c) ==
    /\ pc[c] = "done"
    /\ local[c].token # NoToken
    /\ wrote[c] = NoToken

\* no call of the user has written the gate
GateUnwritten(userId) == \A c \in Calls : caller[c] = userId => ~flipped[c]

\* C23: a submitQuiz call whose saveResult fails ends with the store error
\* and has not written the gate; as long as no other call of the user has
\* written it, the gate is unflipped with no quizToken, and no call of that
\* user is rejected with AlreadyCompleted.
C23_SaveFailureLeavesGate ==
    \A c \in Calls :
        SaveFailed(c) =>
            /\ outcome[c].status = "error"
            /\ outcome[c].error.kind \in StoreErrors
            /\ ~flipped[c]
            /\ GateUnwritten(caller[c]) =>
                  /\ users[caller[c]] = [hasCompletedQuiz |-> FALSE, quizToken |-> NoToken]
                  /\ \A c2 \in Calls :
                        caller[c2] = caller[c] => ~FailedWith(c2, "AlreadyCompleted")

\* the write of call 1 fails; the next call of the same user passes the
\* gate, succeeds and flips it
C23_Witness ==
    \E c1, c2 \in Calls :
        /\ c1 < c2
        /\ caller[c1] = caller[c2]
        /\ SaveFailed(c1)
        /\ FailedWith(c1, "StoreUnavailable")
        /\ Succeeded(c2)
        /\ users[caller[c1]].hasCompletedQuiz

\* the write has failed and the gate is as it was
C23_WitnessUnflipped ==
    \E c \in Calls :
        /\ SaveFailed(c)
        /\ \A c2 \in Calls \ {c} : pc[c2] = "idle"
        /\ ~users[caller[c]].hasCompletedQuiz
        /\ results = {}

\* C24 (checked under SpecRead): no step of submitQuiz, getResult or
\* getMyResult changes or removes a stored Result: every record of the
\* result store is in the store after the step, and the record under a
\* token stays the one stored first.
C24_ResultStoreOnlyGrows ==
    [][/\ \A r \in results : r \in results'
       /\ \A r \in results : \A r2 \in results' : r2.id = r.id => r2 = r
      ]_vars

\* two Results are stored and the first one is retrieved after the second
\* was written
C24_Witness ==
    /\ Cardinality(results) = 2
    /\ response.op = "getResult"
    /\ response.reply.status = "ok"
    /\ \E c1, c2 \in Calls :
          /\ c1 # c2
          /\ wrote[c1] = response.token
          /\ wrote[c2] # NoToken
          /\ Succeeded(c1)

\* C25: in every stored Result every answer names a question of the
\* catalog and an option of that question, and no two answers name the
\* same question.
C25_StoredAnswersValid ==
    \A r \in results :
        \A i \in DOMAIN r.answers :
            /\ InCatalog(r.answers[i].questionId)
            /\ IdentifiesOption(r.answers[i])
            /\ \A j \in DOMAIN r.answers :
                  r.answers[j].questionId = r.answers[i].questionId => j = i

\* the three answers of one call are stored, the call with the repeated
\* question and the call with the unknown one have stored nothing
C25_Witness ==
    /\ \E r \in results : Len(r.answers) = 3
    /\ \E c \in Calls : FailedWith(c, "DuplicateAnswer") \/ FailedWith(c, "UnknownQuestion")
    /\ Cardinality(results) = 1

(***************************************************************************)
(* Properties of the ScoreBreakdown (SpecScoring, Spec)                    *)
(***************************************************************************)
\* the categories that received at least one point from the selected options
Awarded(answers) == {cat \in Categories : WeightedTotal(answers, cat) >= 1}

\* C26 (as claimed): the keys of the ScoreBreakdown are exactly the
\* categories that received at least one point from the selected options.
C26_OnlyAwardedCategories ==
    Scored => KeySet(breakdown) = Awarded(body)

\* C26 (amended): the keys of the ScoreBreakdown are exactly the categories
\* the scoring maps of the selected options name: a category named with 0
\* points only is a key with the value 0, a category no selected option
\* names is not a key.
C26_ExactlyNamedCategories ==
    Scored =>
        /\ KeySet(breakdown) = Named(body)
        /\ \A cat \in Named(body) \ Awarded(body) : Get(breakdown, cat) = 0
        /\ \A cat \in Categories \ Named(body) : ~Has(breakdown, cat)

\* option c of q3 names explorer with 0 points: explorer is a key with the
\* value 0
C26_Witness ==
    /\ Scored
    /\ body = <<Answer("q3", "c")>>
    /\ Has(breakdown, "explorer")
    /\ Get(breakdown, "explorer") = 0
    /\ "explorer" \notin Awarded(body)

\* every question weight and every option point value is a non-negative
\* integer
CatalogNonNegative ==
    \A q \in Range(Questions) :
        /\ q.weight \in Nat
        /\ \A o \in Range(q.options) : \A e \in Range(o.scores) : e.value \in Nat

\* every value of the breakdown is a non-negative integer
NonNegative(obj) == \A i \in 1..Len(obj) : obj[i].value \in Nat

\* C27: with a catalog of non-negative integer weights and points, every
\* ScoreBreakdown is made of non-negative integers: the one calculateScores
\* returns, the one a call holds, the one it returns and the one stored in
\* a Result.
C27_NonNegativeIntegers ==
    CatalogNonNegative =>
        /\ NonNegative(breakdown)
        /\ \A c \in Calls : NonNegative(local[c].scores) /\ NonNegative(outcome[c].scores)
        /\ \A r \in results : NonNegative(r.scores)

\* the totals of the README example, stored in a Result and returned by
\* the call
C27_Witness ==
    /\ \E r \in results : AsMapping(r.scores) = {<<"architect", 18>>, <<"leader", 19>>}
    /\ \E c \in Calls : Succeeded(c) /\ AsMapping(outcome[c].scores) = {<<"architect", 18>>, <<"leader", 19>>}

(***************************************************************************)
(* Properties of what a submitQuiz call leaves behind (Spec)               *)
(***************************************************************************)
\* the Results call c has created that are in the store
CreatedBy(c) == {r \in results : wrote[c] # NoToken /\ r.id = wrote[c]}

\* C28 (as claimed): a submitQuiz call that has ended with an error, of
\* whatever kind, has left no Result that it created in the result store.
C28_FailedCallLeavesNoResult ==
    \A c \in Calls : outcome[c].status = "error" => CreatedBy(c) = {}

\* C29: a submitQuiz call that has returned success has stored a Result
\* whose token, winning category and ScoreBreakdown are the three values
\* it returned, whose userId is the caller and whose answers are the
\* submitted (questionId, optionId) pairs in the submitted order.
C29_ReturnsWhatItStored ==
    \A c \in Calls :
        Succeeded(c) =>
            /\ wrote[c] = outcome[c].token
            /\ CreatedBy(c) =
                  {[id |-> outcome[c].token,
                    userId |-> caller[c],
                    topPersonality |-> outcome[c].topPersonality,
                    scores |-> outcome[c].scores,
                    answers |-> submitted[c]]}

\* the three answers of the README example, stored in the order submitted
C29_Witness ==
    \E c \in Calls :
        /\ Succeeded(c)
        /\ submitted[c] = ReadmeExample
        /\ outcome[c].topPersonality = "leader"
        /\ \E r \in CreatedBy(c) : r.answers = ReadmeExample /\ r.userId = caller[c]

(***************************************************************************)
(* Order independence of the winner (SpecScoring)                          *)
(***************************************************************************)
\* the winner resolved for the answers in the order p
WinnerOf(answers, p) ==
    resolveTopPersonality(
        calculateScores(Permuted(answers, p), QuestionMap(questions)),
        Permuted(answers, p), QuestionMap(questions))

\* C30: for every validated answer set and every permutation of its
\* answers, resolveTopPersonality applied to the ScoreBreakdown computed
\* from the permuted answers returns the winner it returns for the answers
\* as submitted.
C30_WinnerPermutationInvariant ==
    stage = "resolved" => \A p \in Orderings(Len(body)) : WinnerOf(body, p) = winner

\* a tie on the total between two categories that a permutation inserts
\* into the breakdown in the other order
C30_Witness ==
    /\ stage = "resolved"
    /\ Cardinality(Contenders(breakdown)) >= 2
    /\ \E p \in Orderings(Len(body)) :
          LET permuted == calculateScores(Permuted(body, p), QuestionMap(questions))
          IN  /\ Keys(permuted) # Keys(breakdown)
              /\ \E k1, k2 \in Contenders(breakdown) :
                    \E i1, i2, j1, j2 \in 1..Len(breakdown) :
                        /\ Keys(breakdown)[i1] = k1 /\ Keys(breakdown)[i2] = k2
                        /\ Keys(permuted)[j1] = k1 /\ Keys(permuted)[j2] = k2
                        /\ i1 < i2 /\ j2 < j1

====
